---- MODULE Spec2Model ----
(***************************************************************************)
(* ChordSheetJS: the Song document model (src/src/chord_sheet/song.ts) and *)
(* the UltimateGuitarParser that builds a Song from raw lines               *)
(* (src/unnamed/part_000).                                                 *)
(*                                                                         *)
(* Objects live in a store: Line objects in `heap` (a Line's identity is   *)
(* its index), Song objects in `songs` (a Song's identity is its index).   *)
(* Every Song method is an operator from a store to a store; `ret` is the  *)
(* value the method returns (a Line or Song identity) and `fault` records  *)
(* that the method raised (a TypeError on a null currentLine).             *)
(***************************************************************************)
EXTENDS Integers, Sequences, FiniteSets, TLC

VARIABLES heap, songs, fault, last, calls, paras, body, parser, input

vars == <<heap, songs, fault, last, calls, paras, body, parser, input>>

\* ------------------------------------------------------------------ bounds
MaxLines == 2
MaxItems == 2
MaxChain == 2
ParaMaxLines == 4
ParaMaxItems == 3
MaxInput == 4
MaxGiven == 1
MaxCapoChain == 3

\* --------------------------------------------------------------- constants
NULL == "null"

NONE == "none"
CHORUS == "chorus"
VERSE == "verse"
TAB == "tab"

START_OF_CHORUS == "start_of_chorus"
END_OF_CHORUS == "end_of_chorus"
START_OF_VERSE == "start_of_verse"
END_OF_VERSE == "end_of_verse"
START_OF_TAB == "start_of_tab"
END_OF_TAB == "end_of_tab"
TRANSPOSE == "transpose"
NEW_KEY == "new_key"
CAPO == "capo"
KEY == "key"
TITLE == "title"
COMMENT == "comment"

META_TAGS == {CAPO, KEY, TITLE}

\* ------------------------------------------------------------------- items
\* an item: a Tag (name, value) or a chord/lyrics pair (text is its chords as written,
\* chords the pitch class the music-theory collaborator reads from them)
Tag(name, value) ==
  [kind |-> "tag", name |-> name, value |-> value, chords |-> 0, text |-> "", lyrics |-> ""]

Pair(chords) ==
  [kind |-> "pair", name |-> "", value |-> "", chords |-> chords, text |-> "", lyrics |-> ""]

\* new ChordLyricsPair(chords, lyrics), the texts as given (chords may be NULL)
ChordLyricsPair(chords, lyrics) ==
  [kind |-> "pair", name |-> "", value |-> "", chords |-> 0, text |-> chords, lyrics |-> lyrics]

\* what a callback returns for "drop this item" (null)
ABSENT ==
  [kind |-> "absent", name |-> "", value |-> "", chords |-> 0, text |-> "", lyrics |-> ""]

isTag(item) == item.kind = "tag"

isMetaTag(tag) == tag.name \in META_TAGS

Tag_set(tag, value) == Tag(tag.name, value)

isRenderable(item) == item.kind = "pair" \/ (item.kind = "tag" /\ item.name = COMMENT)

\* the music-theory collaborator: keys as pitch classes, a pair's chords as a pitch class
KeyPitch(key) == IF key = "D" THEN 2 ELSE 0

Key_distance(from, to) == IF from = NULL THEN 0 ELSE (KeyPitch(to) - KeyPitch(from)) % 12

Pair_transpose(pair, delta, key) == [pair EXCEPT !.chords = (@ + delta) % 12]

\* ---------------------------------------------------------------- metadata
MetaNames == {CAPO, KEY, TITLE}

EmptyMetadata == [n \in MetaNames |-> <<>>]

Range(seq) == {seq[i] : i \in DOMAIN seq}

Metadata_add(m, name, value) ==
  IF value \in Range(m[name]) THEN m ELSE [m EXCEPT ![name] = Append(@, value)]

Metadata_set(m, name, value) ==
  IF value = NULL THEN [m EXCEPT ![name] = <<>>] ELSE [m EXCEPT ![name] = <<value>>]

getSingle(m, name) == IF m[name] = <<>> THEN NULL ELSE m[name][1]

\* -------------------------------------------------------------------- Line
Line_new == [items |-> <<>>, type |-> NONE, key |-> NULL, transposeKey |-> NULL]

isEmpty(line) == Len(line.items) = 0

hasRenderableItems(line) == \E i \in DOMAIN line.items : isRenderable(line.items[i])

Line_addItem(st, id, item) == [st EXCEPT !.heap[id].items = Append(@, item)]

\* -------------------------------------------------------------------- Song
\* Statement sequencing: evaluate the store e, and unless the code before raised,
\* continue with K on it (a raised TypeError skips every statement that follows)
Do(e, K(_)) == CHOOSE r \in {IF st.fault THEN st ELSE K(st) : st \in {e}} : TRUE

\* _bodyLines and _bodyParagraphs: <<>> is undefined, <<v>> holds the array v
Song_new(metadata) ==
  [lines |-> <<>>, metadata |-> metadata, currentLine |-> 0, warnings |-> <<>>,
   sectionType |-> NONE, currentKey |-> NULL, transposeKey |-> NULL,
   _bodyLines |-> <<>>, _bodyParagraphs |-> <<>>]

\* new Song(metadata): the new Song's identity is returned in ret
newSong(st, metadata) ==
  [st EXCEPT !.songs = Append(@, Song_new(metadata)), !.ret = Len(st.songs) + 1]

\* pushNew(this.lines, Line): a new Line, pushed onto the Song's lines
pushNew(st, sid) ==
  LET id == Len(st.heap) + 1
  IN [st EXCEPT !.heap = Append(@, Line_new),
                !.songs[sid].lines = Append(@, id),
                !.ret = id]

\* this.currentLine.type = sectionType raises a TypeError when currentLine is null
setCurrentLineType(st0, sid, sectionType) ==
  Do(st0, LAMBDA st :
    IF st.songs[sid].currentLine = 0 THEN [st EXCEPT !.fault = TRUE]
    ELSE [st EXCEPT !.heap[st.songs[sid].currentLine].type = sectionType])

\* addLine(line?): given = 0 stands for the omitted argument
addLine(st0, sid, given) ==
  Do(st0, LAMBDA st :
  Do(IF given # 0 THEN [st EXCEPT !.ret = given] ELSE pushNew(st, sid), LAMBDA st1 :
  Do(setCurrentLineType([st1 EXCEPT !.songs[sid].currentLine = st1.ret], sid,
                        st1.songs[sid].sectionType), LAMBDA st2 :
    LET s == st2.songs[sid]
        cl == s.currentLine
    IN [st2 EXCEPT
          !.heap[cl].transposeKey =
             IF s.transposeKey # NULL THEN s.transposeKey ELSE s.currentKey,
          !.heap[cl].key =
             IF s.currentKey # NULL THEN s.currentKey ELSE getSingle(s.metadata, KEY),
          !.ret = cl])))

ensureLine(st0, sid) ==
  Do(st0, LAMBDA st :
    IF st.songs[sid].currentLine = 0 THEN addLine(st, sid, 0) ELSE st)

addWarning(st, sid, message) ==
  [st EXCEPT !.songs[sid].warnings = Append(@, message)]

\* a mutant of checkCurrentSectionType: the comparison is inverted
checkCurrentSectionType_inverted(st, sid, sectionType, tag) ==
  IF st.songs[sid].sectionType = sectionType
  THEN addWarning(st, sid, [tag |-> tag.name, section |-> st.songs[sid].sectionType])
  ELSE st

checkCurrentSectionType(st, sid, sectionType, tag) ==
  IF st.songs[sid].sectionType # sectionType
  THEN addWarning(st, sid, [tag |-> tag.name, section |-> st.songs[sid].sectionType])
  ELSE st

startSection(st0, sid, sectionType, tag) ==
  Do(checkCurrentSectionType(st0, sid, NONE, tag), LAMBDA st1 :
    setCurrentLineType([st1 EXCEPT !.songs[sid].sectionType = sectionType], sid, sectionType))

\* a mutant of endSection: the current line is retyped as well
endSection_retype(st0, sid, sectionType, tag) ==
  Do(checkCurrentSectionType(st0, sid, sectionType, tag), LAMBDA st1 :
    IF st1.songs[sid].currentLine = 0 THEN [st1 EXCEPT !.songs[sid].sectionType = NONE]
    ELSE setCurrentLineType([st1 EXCEPT !.songs[sid].sectionType = NONE], sid, NONE))

endSection(st0, sid, sectionType, tag) ==
  Do(checkCurrentSectionType(st0, sid, sectionType, tag), LAMBDA st1 :
    [st1 EXCEPT !.songs[sid].sectionType = NONE])

setSectionTypeFromTag(st, sid, tag) ==
  CASE tag.name = START_OF_CHORUS -> startSection(st, sid, CHORUS, tag)
    [] tag.name = END_OF_CHORUS -> endSection(st, sid, CHORUS, tag)
    [] tag.name = START_OF_TAB -> startSection(st, sid, TAB, tag)
    [] tag.name = END_OF_TAB -> endSection(st, sid, TAB, tag)
    [] tag.name = START_OF_VERSE -> startSection(st, sid, VERSE, tag)
    [] tag.name = END_OF_VERSE -> endSection(st, sid, VERSE, tag)
    [] OTHER -> st

setMetadata(st, sid, name, value) ==
  [st EXCEPT !.songs[sid].metadata = Metadata_add(@, name, value)]

addTag(st0, sid, tag) ==
  Do(st0, LAMBDA st :
  Do(IF isMetaTag(tag) THEN setMetadata(st, sid, tag.name, tag.value)
     ELSE IF tag.name = TRANSPOSE
       THEN [st EXCEPT !.songs[sid].transposeKey = tag.value]
     ELSE IF tag.name = NEW_KEY
       THEN [st EXCEPT !.songs[sid].currentKey = tag.value]
     ELSE setSectionTypeFromTag(st, sid, tag), LAMBDA st1 :
  Do(ensureLine(st1, sid), LAMBDA st2 :
    Line_addItem(st2, st2.songs[sid].currentLine, tag))))

addItem(st0, sid, item) ==
  Do(st0, LAMBDA st :
    IF isTag(item) THEN addTag(st, sid, item)
    ELSE Do(ensureLine(st, sid), LAMBDA st1 :
           Line_addItem(st1, st1.songs[sid].currentLine, item)))

\* ---------------------------------------------------------------- paragraphs
\* a mutant of paragraphsLine: a Line without renderable items is added as well
paragraphsLine_noSkip(h, acc, id) ==
  IF isEmpty(h[id]) THEN Append(acc, <<>>)
  ELSE [acc EXCEPT ![Len(acc)] = Append(@, id)]

\* the body of the forEach of the paragraphs getter, for the Line id: acc is the
\* list of paragraphs so far, whose last element is currentParagraph
paragraphsLine(h, acc, id) ==
  IF isEmpty(h[id]) THEN Append(acc, <<>>)
  ELSE IF hasRenderableItems(h[id]) THEN [acc EXCEPT ![Len(acc)] = Append(@, id)]
  ELSE acc

RECURSIVE paragraphsFrom(_, _, _, _)
\* this.lines.forEach of the paragraphs getter, from line i
paragraphsFrom(h, lines, i, acc) ==
  IF i > Len(lines) THEN acc
  ELSE paragraphsFrom(h, lines, i + 1, paragraphsLine(h, acc, lines[i]))

\* a Paragraph is the sequence of its Lines
paragraphs(st, sid) == paragraphsFrom(st.heap, st.songs[sid].lines, 1, <<<<>>>>)

\* ------------------------------------------- bodyLines and bodyParagraphs
\* Paragraph.hasRenderableItems(): some Line of the paragraph has renderable items
Paragraph_hasRenderableItems(h, paragraph) ==
  \E i \in DOMAIN paragraph : hasRenderableItems(h[paragraph[i]])

\* this[targetProp][0].hasRenderableItems(), for an entry of the array copied from sourceProp
entryHasRenderableItems(h, sourceProp, entry) ==
  IF sourceProp = "lines" THEN hasRenderableItems(h[entry])
  ELSE Paragraph_hasRenderableItems(h, entry)

\* the while loop of selectRenderableItems: shift() while the first entry has
\* no renderable items
RECURSIVE shiftLeading(_, _, _)
shiftLeading(h, sourceProp, arr) ==
  IF arr # <<>> /\ ~entryHasRenderableItems(h, sourceProp, arr[1])
  THEN shiftLeading(h, sourceProp, Tail(arr))
  ELSE arr

\* selectRenderableItems(targetProp, sourceProp): computed when this[targetProp]
\* is undefined and kept in it; the array is returned in ret
selectRenderableItems(st, sid, targetProp, sourceProp) ==
  IF st.songs[sid][targetProp] = <<>>
  THEN LET source == IF sourceProp = "lines" THEN st.songs[sid].lines
                      ELSE paragraphs(st, sid)
           target == shiftLeading(st.heap, sourceProp, source)
       IN [st EXCEPT !.songs[sid][targetProp] = <<target>>, !.ret = target]
  ELSE [st EXCEPT !.ret = st.songs[sid][targetProp][1]]

bodyLines(st, sid) == selectRenderableItems(st, sid, "_bodyLines", "lines")

bodyParagraphs(st, sid) == selectRenderableItems(st, sid, "_bodyParagraphs", "paragraphs")

\* ------------------------------------------------------------ the callbacks
ItemFn(name, find, arg, delta) == [name |-> name, find |-> find, arg |-> arg, delta |-> delta]

\* the callback of setKey
setKeyCallback(item, key, transpose) ==
  IF isTag(item) /\ item.name = KEY THEN Tag_set(item, key)
  ELSE IF item.kind = "pair" THEN Pair_transpose(item, transpose, key)
  ELSE item

\* the callback updateItem hands to mapItems, for find = "a Tag named fn.find"
\* and update = "item.set({ value: fn.arg })"
updateItemCallback(item, find, value) ==
  IF isTag(item) /\ item.name = find THEN Tag_set(item, value) ELSE item

\* func(item) for the callbacks the model draws
func(fn, item) ==
  CASE fn.name = "identity" -> item
    [] fn.name = "dropTags" -> IF isTag(item) THEN ABSENT ELSE item
    [] fn.name = "swap" -> IF isTag(item) THEN Pair(0) ELSE Tag(COMMENT, "x")
    [] fn.name = "setKey" -> setKeyCallback(item, fn.arg, fn.delta)
    [] fn.name = "update" -> updateItemCallback(item, fn.find, fn.arg)

NullLine == [null |-> TRUE, items |-> <<>>]

SomeLine(items) == [null |-> FALSE, items |-> items]

\* 1-based index of the first Tag named `name`, 0 if there is none
RECURSIVE findIndexFrom(_, _, _)
findIndexFrom(items, name, i) ==
  IF i > Len(items) THEN 0
  ELSE IF isTag(items[i]) /\ items[i].name = name THEN i
  ELSE findIndexFrom(items, name, i + 1)

\* a mutant of removeItemCallback: a Line whose only item matches is kept, emptied
removeItemCallback_keepLine(line, name) ==
  LET items == line.items
      index == findIndexFrom(items, name, 1)
  IN IF index = 0 THEN SomeLine(items)
     ELSE SomeLine(SubSeq(items, 1, index - 1) \o SubSeq(items, index + 1, Len(items)))

\* the callback removeItem hands to mapLines, for callback = "a Tag named `name`"
removeItemCallback(line, name) ==
  LET items == line.items
      index == findIndexFrom(items, name, 1)
  IN IF index = 0 THEN SomeLine(items)
     ELSE IF Len(items) = 1 THEN NullLine
     ELSE SomeLine(SubSeq(items, 1, index - 1) \o SubSeq(items, index + 1, Len(items)))

\* func(line) for the line callbacks the model draws
lineFunc(fn, line) ==
  CASE fn.name = "identity" -> SomeLine(line.items)
    [] fn.name = "dropTagOnly" ->
         IF \A i \in DOMAIN line.items : isTag(line.items[i]) THEN NullLine
         ELSE SomeLine(line.items)
    [] fn.name = "remove" -> removeItemCallback(line, fn.find)

\* ------------------------------------------------------ the transformations
\* a mutant of mapItemsItem: the original item is added, not the callback's result
mapItemsItem_original(st, cid, fn, item) ==
  LET changedItem == func(fn, item)
  IN IF changedItem # ABSENT THEN addItem(st, cid, item) ELSE st

\* the body of line.items.forEach of mapItems, for one item
mapItemsItem(st, cid, fn, item) ==
  LET changedItem == func(fn, item)
  IN IF changedItem # ABSENT THEN addItem(st, cid, changedItem) ELSE st

RECURSIVE mapItemsItems(_, _, _, _, _, _)
\* line.items.forEach of mapItems, from item j of line i of song sid
mapItemsItems(st0, sid, cid, fn, i, j) ==
  Do(st0, LAMBDA st :
    LET items == st.heap[st.songs[sid].lines[i]].items
    IN IF j > Len(items) THEN st
       ELSE mapItemsItems(mapItemsItem(st, cid, fn, items[j]), sid, cid, fn, i, j + 1))

RECURSIVE mapItemsLines(_, _, _, _, _)
\* this.lines.forEach of mapItems, from line i of song sid
mapItemsLines(st0, sid, cid, fn, i) ==
  Do(st0, LAMBDA st :
    IF i > Len(st.songs[sid].lines) THEN st
    ELSE mapItemsLines(mapItemsItems(addLine(st, cid, 0), sid, cid, fn, i, 1),
                       sid, cid, fn, i + 1))

mapItems(st0, sid, fn) ==
  Do(newSong(st0, EmptyMetadata), LAMBDA st :
  Do(mapItemsLines(st, sid, st.ret, fn, 1), LAMBDA st1 :
    [st1 EXCEPT !.ret = st.ret]))

RECURSIVE addItems(_, _, _, _)
\* changedLine.items.forEach((item) => clonedSong.addItem(item))
addItems(st0, cid, items, j) ==
  Do(st0, LAMBDA st :
    IF j > Len(items) THEN st
    ELSE addItems(addItem(st, cid, items[j]), cid, items, j + 1))

RECURSIVE mapLinesLines(_, _, _, _, _)
\* this.lines.forEach of mapLines, from line i of song sid
mapLinesLines(st0, sid, cid, fn, i) ==
  Do(st0, LAMBDA st :
    IF i > Len(st.songs[sid].lines) THEN st
    ELSE LET changedLine == lineFunc(fn, st.heap[st.songs[sid].lines[i]])
         IN mapLinesLines(IF ~changedLine.null
                          THEN addItems(addLine(st, cid, 0), cid, changedLine.items, 1)
                          ELSE st,
                          sid, cid, fn, i + 1))

mapLines(st0, sid, fn) ==
  Do(newSong(st0, EmptyMetadata), LAMBDA st :
  Do(mapLinesLines(st, sid, st.ret, fn, 1), LAMBDA st1 :
    [st1 EXCEPT !.ret = st.ret]))

clone(st, sid) == mapItems(st, sid, ItemFn("identity", "", "", 0))

Min(a, b) == IF a < b THEN a ELSE b

Max(a, b) == IF a > b THEN a ELSE b

\* Array.prototype.slice(start, end) with its treatment of negative indices
slice(seq, start, end) ==
  LET len == Len(seq)
      k == IF start < 0 THEN Max(len + start, 0) ELSE Min(start, len)
      final == IF end < 0 THEN Max(len + end, 0) ELSE Min(end, len)
  IN SubSeq(seq, k + 1, final)

\* lines.findIndex(line => line.items.some(item => !(item instanceof Tag) || ...)),
\* 0-based, -1 if there is none; `after` is NULL or a Tag name
RECURSIVE insertIndexFrom(_, _, _, _)
insertIndexFrom(h, lines, after, i) ==
  IF i > Len(lines) THEN -1
  ELSE IF \E j \in DOMAIN h[lines[i]].items :
            LET item == h[lines[i]].items[j]
            IN ~isTag(item) \/ (after # NULL /\ isTag(item) /\ item.name = after)
    THEN i - 1
  ELSE insertIndexFrom(h, lines, after, i + 1)

\* a mutant of insertDirective: the directive Line is appended after the last Line
insertDirective_append(st0, sid, name, value) ==
  Do(st0, LAMBDA st :
    LET newLine == Len(st.heap) + 1
    IN Do(clone([st EXCEPT !.heap = Append(@, [Line_new EXCEPT
                                                 !.items = <<Tag(name, value)>>])], sid),
          LAMBDA st2 :
            [st2 EXCEPT !.songs[st2.ret].lines = Append(@, newLine)]))

insertDirective(st0, sid, name, value) ==
  Do(st0, LAMBDA st :
    LET insertIndex == insertIndexFrom(st.heap, st.songs[sid].lines, NULL, 1)
        newLine == Len(st.heap) + 1
    IN Do(clone([st EXCEPT !.heap = Append(@, [Line_new EXCEPT
                                                 !.items = <<Tag(name, value)>>])], sid),
          LAMBDA st2 :
            LET clonedSong == st2.ret
                lines == st2.songs[clonedSong].lines
            IN [st2 EXCEPT !.songs[clonedSong].lines =
                              slice(lines, 0, insertIndex) \o <<newLine>>
                                \o slice(lines, insertIndex, Len(lines)),
                           !.ret = clonedSong]))

\* found: findCallback held for some item mapItems visited (it visits them all)
updateItemFound(st, sid, find) ==
  \E i \in DOMAIN st.songs[sid].lines :
    findIndexFrom(st.heap[st.songs[sid].lines[i]].items, find, 1) # 0

\* a mutant of updateItem: the directive is inserted whether or not a Tag was found
updateItem_alwaysInsert(st0, sid, find, value) ==
  Do(st0, LAMBDA st :
  Do(mapItems(st, sid, ItemFn("update", find, value, 0)), LAMBDA updatedSong :
    insertDirective(updatedSong, updatedSong.ret, find, value)))

\* updateItem(find a Tag named `find`, set its value, insert the directive)
updateItem(st0, sid, find, value) ==
  Do(st0, LAMBDA st :
  Do(mapItems(st, sid, ItemFn("update", find, value, 0)), LAMBDA updatedSong :
    IF ~updateItemFound(st, sid, find)
    THEN insertDirective(updatedSong, updatedSong.ret, find, value)
    ELSE updatedSong))

removeItem(st, sid, find) == mapLines(st, sid, ItemFn("remove", find, "", 0))

\* a mutant of setCapo: the capo is set on the metadata of this, not of the copy
setCapo_onThis(st0, sid, capo) ==
  Do(IF capo = NULL THEN removeItem(st0, sid, CAPO)
     ELSE updateItem(st0, sid, CAPO, capo), LAMBDA updatedSong :
    [updatedSong EXCEPT !.songs[sid].metadata = Metadata_set(@, CAPO, capo)])

setCapo(st0, sid, capo) ==
  Do(IF capo = NULL THEN removeItem(st0, sid, CAPO)
     ELSE updateItem(st0, sid, CAPO, capo), LAMBDA updatedSong :
    [updatedSong EXCEPT !.songs[updatedSong.ret].metadata = Metadata_set(@, CAPO, capo)])

setKey(st0, sid, key) ==
  Do(st0, LAMBDA st :
    LET transpose == Key_distance(getSingle(st.songs[sid].metadata, KEY), key)
    IN Do(mapItems(st, sid, ItemFn("setKey", "", key, transpose)), LAMBDA updatedSong :
         [updatedSong EXCEPT !.songs[updatedSong.ret].metadata = Metadata_set(@, KEY, key)]))

\* ------------------------------------------------ strings and the regexes
\* A raw line is the sequence of its characters; Str is the same text as a
\* string value, the form in which it is stored in a Tag or a pair.
RECURSIVE Str(_)
Str(chars) == IF chars = <<>> THEN "" ELSE chars[1] \o Str(Tail(chars))

\* a mutant of repeat: one space short
repeat_short(n) == [i \in 1..n - 1 |-> " "]

\* " ".repeat(n)
repeat(n) == [i \in 1..n |-> " "]

\* \s
isSpace(c) == c = " "

\* [0-9]
isDigit(c) == c \in {"0", "1", "2", "3", "4", "5", "6", "7", "8", "9"}

\* the i flag: the letters of "verse" and "chorus" in lower case
toLowerCase(c) ==
  CASE c = "V" -> "v" [] c = "E" -> "e" [] c = "R" -> "r" [] c = "S" -> "s"
    [] c = "C" -> "c" [] c = "H" -> "h" [] c = "O" -> "o" [] c = "U" -> "u"
    [] OTHER -> c

\* s starts with the lower-case text pat, whatever the case of s
startsWith(s, pat) ==
  Len(s) >= Len(pat) /\ \A i \in DOMAIN pat : toLowerCase(s[i]) = pat[i]

\* the positions of the character c in s
positionsOf(s, c) == {i \in DOMAIN s : s[i] = c}

\* the least and the greatest element of a non-empty set of positions
first(P) == CHOOSE p \in P : \A q \in P : p <= q

greatest(P) == CHOOSE p \in P : \A q \in P : q <= p

\* /^\[(Verse.*)]/i: <<>> when the line does not match, else the match and its
\* group 1 (.* is greedy: up to the last "]")
VERSE_LINE_REGEX(line) ==
  LET closing == {p \in positionsOf(line, "]") : p >= 7}
  IN IF startsWith(line, <<"[", "v", "e", "r", "s", "e">>) /\ closing # {}
     THEN <<SubSeq(line, 1, greatest(closing)), SubSeq(line, 2, greatest(closing) - 1)>>
     ELSE <<>>

\* /^\[(Chorus)]/i
CHORUS_LINE_REGEX(line) ==
  IF startsWith(line, <<"[", "c", "h", "o", "r", "u", "s", "]">>)
  THEN <<SubSeq(line, 1, 8), SubSeq(line, 2, 7)>>
  ELSE <<>>

\* /^\[([^\]]+)]/: "[", one or more characters other than "]", then "]"
OTHER_METADATA_LINE_REGEX(line) ==
  LET closing == positionsOf(line, "]")
  IN IF Len(line) >= 3 /\ line[1] = "[" /\ line[2] # "]" /\ closing # {}
     THEN <<SubSeq(line, 1, first(closing)), SubSeq(line, 2, first(closing) - 1)>>
     ELSE <<>>

\* the character class [A-G|Do|Re|Mi|Fa|Sol|La|Si]
isChordStart(c) ==
  c \in {"A", "B", "C", "D", "E", "F", "G", "|", "o", "R", "e", "M", "i", "a",
         "S", "l", "L"}

\* (#|b)? at position p: the positions the match can continue from
afterAccidental(s, p) ==
  {p} \cup (IF p <= Len(s) /\ s[p] \in {"#", "b"} THEN {p + 1} ELSE {})

\* one chord, ([A-G|..])(#|b)?([^/\s]*)(\/([A-G|..])(#|b)?)?, matched from
\* position p: the positions right after it
chordEnds(s, p) ==
  IF p > Len(s) \/ ~isChordStart(s[p]) THEN {}
  ELSE LET suffix == {q \in p + 1 .. Len(s) + 1 :
                        \E a \in afterAccidental(s, p + 1) :
                          a <= q /\ \A k \in a .. q - 1 : s[k] # "/" /\ ~isSpace(s[k])}
           bass(q) == IF q + 1 <= Len(s) /\ s[q] = "/" /\ isChordStart(s[q + 1])
                      THEN afterAccidental(s, q + 2) ELSE {}
       IN suffix \cup UNION {bass(q) : q \in suffix}

\* (\s|$)+ matched from a position of P: the positions right after it
spaceEnds(s, P) ==
  {q \in 1 .. Len(s) + 1 :
     \E p \in P : \/ (p < q /\ \A k \in p .. q - 1 : isSpace(s[k]))
                  \/ (p = q /\ q = Len(s) + 1)}

\* the positions after one or more repetitions of a chord and (\s|$)+
RECURSIVE chordsEnds(_, _, _)
chordsEnds(s, P, seen) ==
  LET next == spaceEnds(s, UNION {chordEnds(s, p) : p \in P}) \ seen
  IN IF next = {} THEN seen ELSE chordsEnds(s, next, seen \cup next)

\* CHORD_LINE_REGEX.test(s)
CHORD_LINE_REGEX(s) ==
  LET leading == {q \in 1 .. Len(s) + 1 : \A k \in 1 .. q - 1 : isSpace(s[k])}
  IN spaceEnds(s, chordsEnds(s, leading, {})) # {}

\* the length of the longest run of characters satisfying the test from position p
RECURSIVE run(_, _, _)
run(s, p, digits) ==
  IF p <= Len(s) /\ (IF digits THEN isDigit(s[p]) ELSE s[p] = ":")
  THEN 1 + run(s, p + 1, digits) ELSE 0

\* ([0-9]+x:*)|(x[0-9]+:*) matched at position p: the length of the match, 0 if none
repetitionAt(s, p) ==
  IF p > Len(s) THEN 0
  ELSE IF run(s, p, TRUE) > 0 /\ p + run(s, p, TRUE) <= Len(s) /\ s[p + run(s, p, TRUE)] = "x"
    THEN run(s, p, TRUE) + 1 + run(s, p + run(s, p, TRUE) + 1, FALSE)
  ELSE IF s[p] = "x" /\ run(s, p + 1, TRUE) > 0
    THEN 1 + run(s, p + 1, TRUE) + run(s, p + 1 + run(s, p + 1, TRUE), FALSE)
  ELSE 0

\* line.match(REPETITION_REGEX), from position p on: the matches from left to
\* right (<<>> for null)
RECURSIVE REPETITION_REGEX(_, _)
REPETITION_REGEX(s, p) ==
  IF p > Len(s) THEN <<>>
  ELSE IF repetitionAt(s, p) > 0
    THEN <<SubSeq(s, p, p + repetitionAt(s, p) - 1)>> \o REPETITION_REGEX(s, p + repetitionAt(s, p))
  ELSE REPETITION_REGEX(s, p + 1)

\* line.replace(REPETITION_REGEX, ""), from position p on
RECURSIVE withoutRepetitions(_, _)
withoutRepetitions(s, p) ==
  IF p > Len(s) THEN <<>>
  ELSE IF repetitionAt(s, p) > 0 THEN withoutRepetitions(s, p + repetitionAt(s, p))
  ELSE <<s[p]>> \o withoutRepetitions(s, p + 1)

\* line.replaceAll("-", "")
replaceAll(s, c) == SelectSeq(s, LAMBDA x : x # c)

\* s.replace(pat, by) for a string pat: the first occurrence is replaced
replace(s, pat, by) ==
  LET at == {p \in 1 .. Len(s) - Len(pat) + 1 : SubSeq(s, p, p + Len(pat) - 1) = pat}
  IN IF at = {} THEN s
     ELSE SubSeq(s, 1, first(at) - 1) \o by \o SubSeq(s, first(at) + Len(pat), Len(s))

\* ------------------------------------------------- UltimateGuitarParser
\* The parser's store is the Song store with the parser's own fields songLine
\* (0 for null) and currentSectionType (NULL for null); this.song is Song 1.
startSectionTags ==
  [t \in {VERSE, CHORUS, TAB} |->
     CASE t = VERSE -> START_OF_VERSE [] t = CHORUS -> START_OF_CHORUS [] t = TAB -> START_OF_TAB]

endSectionTags ==
  [t \in {VERSE, CHORUS, TAB} |->
     CASE t = VERSE -> END_OF_VERSE [] t = CHORUS -> END_OF_CHORUS [] t = TAB -> END_OF_TAB]

\* the previousLine getter: 0 for null
previousLine(st, sid) ==
  LET count == Len(st.songs[sid].lines)
  IN IF count >= 2 THEN st.songs[sid].lines[count - 1] ELSE 0

\* Song.setCurrentProperties(sectionType): the current line takes the section type
setCurrentProperties(st, sid, sectionType) == setCurrentLineType(st, sid, sectionType)

\* Line.addChordLyricsPair(chords, lyrics) and Line.addTag(tag)
Line_addChordLyricsPair(st, id, chords, lyrics) ==
  Line_addItem(st, id, ChordLyricsPair(chords, lyrics))

Line_addTag(st, id, tag) == Line_addItem(st, id, tag)

\* throw new Error("Expected this.songLine to be present")
throw(st) == [st EXCEPT !.fault = TRUE]

startNewLine(st0) ==
  Do(addLine(st0, 1, 0), LAMBDA st : [st EXCEPT !.songLine = st.ret])

\* a mutant of UG_endSection: the end Tag is not emitted
UG_endSection_silent(st0, addNewLine) ==
  Do(st0, LAMBDA st :
  Do(setCurrentProperties(st, 1, NONE), LAMBDA st3 :
    [st3 EXCEPT !.currentSectionType = NULL]))

\* the parser's endSection({ addNewLine })
UG_endSection(st0, addNewLine) ==
  Do(st0, LAMBDA st :
  Do(IF st.currentSectionType # NULL /\ st.currentSectionType \in DOMAIN endSectionTags
     THEN Do(addTag(st, 1, Tag(endSectionTags[st.currentSectionType], "")), LAMBDA st1 :
            IF addNewLine THEN startNewLine(st1) ELSE st1)
     ELSE st, LAMBDA st2 :
  Do(setCurrentProperties(st2, 1, NONE), LAMBDA st3 :
    [st3 EXCEPT !.currentSectionType = NULL])))

\* a mutant of UG_startSection: an open section is not ended first
UG_startSection_overwrite(st0, sectionType, label) ==
  Do(st0, LAMBDA st1 :
  Do(setCurrentProperties([st1 EXCEPT !.currentSectionType = sectionType], 1, sectionType),
     LAMBDA st2 :
    IF sectionType \in DOMAIN startSectionTags
    THEN addTag(st2, 1, Tag(startSectionTags[sectionType], label))
    ELSE st2))

\* the parser's startSection(sectionType, label)
UG_startSection(st0, sectionType, label) ==
  Do(st0, LAMBDA st :
  Do(IF st.currentSectionType # NULL THEN UG_endSection(st, TRUE) ELSE st, LAMBDA st1 :
  Do(setCurrentProperties([st1 EXCEPT !.currentSectionType = sectionType], 1, sectionType),
     LAMBDA st2 :
    IF sectionType \in DOMAIN startSectionTags
    THEN addTag(st2, 1, Tag(startSectionTags[sectionType], label))
    ELSE st2)))

\* a mutant of isSectionEnd: the previous Line is required to be empty
isSectionEnd_afterEmpty(st) ==
  /\ st.songLine # 0
  /\ isEmpty(st.heap[st.songLine])
  /\ previousLine(st, 1) # 0
  /\ isEmpty(st.heap[previousLine(st, 1)])

isSectionEnd(st) ==
  /\ st.songLine # 0
  /\ isEmpty(st.heap[st.songLine])
  /\ previousLine(st, 1) # 0
  /\ ~isEmpty(st.heap[previousLine(st, 1)])

parseMetadataLine(st0, line) ==
  Do(startNewLine(st0), LAMBDA st :
  Do(UG_endSection(st, TRUE), LAMBDA st1 :
    IF st1.songLine = 0 THEN throw(st1)
    ELSE Line_addTag(st1, st1.songLine,
                     Tag(COMMENT, Str(OTHER_METADATA_LINE_REGEX(line)[2])))))

\* a mutant of writeTabLine: no TAB section is started
writeTabLine_noSection(st0, line) ==
  Do(startNewLine(st0), LAMBDA st :
    IF st.songLine = 0 THEN throw(st)
    ELSE Line_addChordLyricsPair(st, st.songLine, NULL, Str(line)))

writeTabLine(st0, line) ==
  Do(startNewLine(st0), LAMBDA st :
  Do(IF st.currentSectionType # TAB
     THEN Do(startNewLine(st), LAMBDA st1 : UG_startSection(st1, TAB, ""))
     ELSE st, LAMBDA st2 :
    IF st2.songLine = 0 THEN throw(st2)
    ELSE Line_addChordLyricsPair(st2, st2.songLine, NULL, Str(line))))

\* ChordSheetParser.parseLine(line): a new Line, which takes the chord/lyrics
\* pairs of the line unless the line is blank (one pair stands for them)
super_parseLine(st0, line) ==
  Do(startNewLine(st0), LAMBDA st :
    IF \A i \in DOMAIN line : isSpace(line[i]) THEN st
    ELSE IF st.songLine = 0 THEN throw(st)
    ELSE Line_addChordLyricsPair(st, st.songLine, "", Str(line)))

\* ChordSheetParser.endOfSong()
super_endOfSong(st) == st

\* the branch of parseLine for a chord line with a repetition marker
parseRepetitionLine(st0, line) ==
  LET rep_only == REPETITION_REGEX(line, 1)
      chords_only == replace(line, rep_only[1], repeat(Len(rep_only[1])))
  IN Do(startNewLine(st0), LAMBDA st :
       IF st.songLine = 0 THEN throw(st)
       ELSE Line_addChordLyricsPair(st, st.songLine, Str(chords_only),
              Str(repeat(Len(chords_only)) \o replace(rep_only[1], <<":">>, <<>>))))

parseLine(st0, line) ==
  Do(IF isSectionEnd(st0) THEN UG_endSection(st0, TRUE) ELSE st0, LAMBDA st :
    IF VERSE_LINE_REGEX(line) # <<>>
      THEN Do(startNewLine(st), LAMBDA st1 :
             UG_startSection(st1, VERSE, Str(VERSE_LINE_REGEX(line)[2])))
    ELSE IF CHORUS_LINE_REGEX(line) # <<>>
      THEN Do(startNewLine(st), LAMBDA st1 :
             UG_startSection(st1, CHORUS, Str(CHORUS_LINE_REGEX(line)[2])))
    ELSE IF OTHER_METADATA_LINE_REGEX(line) # <<>> THEN parseMetadataLine(st, line)
    ELSE IF Len(line) > 8 /\ Len(line) - Len(replaceAll(line, "-")) > 5
      THEN writeTabLine(st, line)
    ELSE IF /\ CHORD_LINE_REGEX(withoutRepetitions(line, 1))
            /\ Len(REPETITION_REGEX(line, 1)) > 0
      THEN parseRepetitionLine(st, line)
    ELSE super_parseLine(st, line))

endOfSong(st0) ==
  Do(super_endOfSong(st0), LAMBDA st :
  Do(IF st.currentSectionType # NULL /\ st.currentSectionType \in DOMAIN endSectionTags
     THEN startNewLine(st) ELSE st, LAMBDA st1 :
    UG_endSection(st1, FALSE)))

\* ----------------------------------------------------------- the API calls
St == [heap |-> heap, songs |-> songs, fault |-> fault, ret |-> 0]

Commit(r) == heap' = r.heap /\ songs' = r.songs /\ fault' = r.fault

\* the store as the parser sees it
ParserSt ==
  [heap |-> heap, songs |-> songs, fault |-> fault, ret |-> 0,
   songLine |-> parser.songLine, currentSectionType |-> parser.currentSectionType]

CommitParser(r) ==
  /\ Commit(r)
  /\ parser' = [songLine |-> r.songLine, currentSectionType |-> r.currentSectionType]

RECURSIVE SumLen(_, _, _)
SumLen(h, lines, i) ==
  IF i > Len(lines) THEN 0 ELSE Len(h[lines[i]].items) + SumLen(h, lines, i + 1)

\* the items of all Lines (while the Song is built these are its lines and the
\* Lines it was given)
TotalItems == SumLen(heap, [i \in DOMAIN heap |-> i], 1)

Building == ~fault /\ calls = <<>>

CanAppend(maxLines, maxItems) ==
  /\ Building
  /\ TotalItems < maxItems
  /\ songs[1].currentLine # 0 \/ Len(songs[1].lines) < maxLines

Call(op, item) == [op |-> op, item |-> item]

AddLine(maxLines) ==
  /\ Building
  /\ Len(songs[1].lines) < maxLines
  /\ \E r \in {addLine(St, 1, 0)} : Commit(r)
  /\ last' = Call("addLine", ABSENT)
  /\ paras' = <<>>
  /\ body' = <<>>
  /\ UNCHANGED <<parser, input>>
  /\ UNCHANGED calls

\* addLine(line), for a Line the caller made with new Line()
AddGivenLine(maxGiven) ==
  /\ Building
  /\ Len(heap) - Len(songs[1].lines) < maxGiven
  /\ \E r \in {addLine([St EXCEPT !.heap = Append(@, Line_new)], 1, Len(heap) + 1)} :
       Commit(r)
  /\ last' = Call("addLine(line)", ABSENT)
  /\ paras' = <<>>
  /\ body' = <<>>
  /\ UNCHANGED <<calls, parser, input>>

EnsureLine ==
  /\ Building
  /\ \E r \in {ensureLine(St, 1)} : Commit(r)
  /\ last' = Call("ensureLine", ABSENT)
  /\ paras' = <<>>
  /\ body' = <<>>
  /\ UNCHANGED <<parser, input>>
  /\ UNCHANGED calls

AddTag(tag, maxLines, maxItems) ==
  /\ CanAppend(maxLines, maxItems)
  /\ \E r \in {addTag(St, 1, tag)} : Commit(r)
  /\ last' = Call("addTag", tag)
  /\ paras' = <<>>
  /\ body' = <<>>
  /\ UNCHANGED <<parser, input>>
  /\ UNCHANGED calls

AddItem(item, maxLines, maxItems) ==
  /\ CanAppend(maxLines, maxItems)
  /\ \E r \in {addItem(St, 1, item)} : Commit(r)
  /\ last' = Call("addItem", item)
  /\ paras' = <<>>
  /\ body' = <<>>
  /\ UNCHANGED <<parser, input>>
  /\ UNCHANGED calls

\* the Song the next transformation is applied to: the latest result
Cur == IF calls = <<>> THEN 1 ELSE calls[Len(calls)].dst

CanTransform == ~fault /\ Len(calls) < MaxChain

Transformed(op, fn, arg, r) ==
  /\ Commit(r)
  /\ calls' = Append(calls, [op |-> op, fn |-> fn, arg |-> arg, src |-> Cur, dst |-> r.ret])
  /\ last' = Call(op, ABSENT)
  /\ paras' = <<>>
  /\ body' = <<>>
  /\ UNCHANGED <<parser, input>>

Clone ==
  /\ CanTransform
  /\ \E r \in {clone(St, Cur)} : Transformed("clone", "", "", r)

MapItems(fn) ==
  /\ CanTransform
  /\ \E r \in {mapItems(St, Cur, ItemFn(fn, "", "", 0))} : Transformed("mapItems", fn, "", r)

MapLines(fn) ==
  /\ CanTransform
  /\ \E r \in {mapLines(St, Cur, ItemFn(fn, "", "", 0))} : Transformed("mapLines", fn, "", r)

SetKey(key) ==
  /\ CanTransform
  /\ \E r \in {setKey(St, Cur, key)} : Transformed("setKey", "", key, r)

SetCapo(capo) ==
  /\ CanTransform
  /\ \E r \in {setCapo(St, Cur, capo)} : Transformed("setCapo", "", capo, r)

GetParagraphs ==
  /\ ~fault
  /\ paras' = paragraphs(St, 1)
  /\ last' = Call("paragraphs", ABSENT)
  /\ body' = <<>>
  /\ UNCHANGED <<heap, songs, fault, calls, parser, input>>

GetBodyLines ==
  /\ ~fault
  /\ \E r \in {bodyLines(St, 1)} : Commit(r) /\ body' = r.ret
  /\ last' = Call("bodyLines", ABSENT)
  /\ paras' = <<>>
  /\ UNCHANGED <<calls, parser, input>>

GetBodyParagraphs ==
  /\ ~fault
  /\ \E r \in {bodyParagraphs(St, 1)} : Commit(r) /\ paras' = r.ret
  /\ last' = Call("bodyParagraphs", ABSENT)
  /\ body' = <<>>
  /\ UNCHANGED <<calls, parser, input>>

\* parse(): the loop body hands the next raw line to parseLine
ParseLine(line) ==
  /\ ~fault
  /\ ~input.done
  /\ input.n < MaxInput
  /\ \E r \in {parseLine(ParserSt, line)} : CommitParser(r)
  /\ input' = [n |-> input.n + 1, line |-> line, before |-> input.line, done |-> FALSE]
  /\ last' = Call("parseLine", ABSENT)
  /\ paras' = <<>>
  /\ body' = <<>>
  /\ UNCHANGED calls

\* parse(): after the last raw line
EndOfSong ==
  /\ ~fault
  /\ ~input.done
  /\ \E r \in {endOfSong(ParserSt)} : CommitParser(r)
  /\ input' = [input EXCEPT !.done = TRUE]
  /\ last' = Call("endOfSong", ABSENT)
  /\ paras' = <<>>
  /\ body' = <<>>
  /\ UNCHANGED calls

\* ------------------------------------------------------------------ inputs
Seeds == {EmptyMetadata, [EmptyMetadata EXCEPT ![TITLE] = <<"T">>]}

SectionTags ==
  {Tag(n, "") : n \in {START_OF_CHORUS, END_OF_CHORUS, START_OF_VERSE,
                       END_OF_VERSE, START_OF_TAB, END_OF_TAB}}

BuildTags ==
  SectionTags \cup {Tag(TRANSPOSE, "2"), Tag(NEW_KEY, "D"), Tag(KEY, "C"), Tag(COMMENT, "x")}

BuildItems == BuildTags \cup {Pair(0)}

\* a new UltimateGuitarParser: songLine null (0), currentSectionType null
UltimateGuitarParser_new == [songLine |-> 0, currentSectionType |-> NULL]

\* what the parser was given so far: n raw lines, the latest one and the one
\* before it, and whether end of input was signalled
NoInput == [n |-> 0, line |-> <<>>, before |-> <<>>, done |-> FALSE]

Init ==
  /\ heap = <<>>
  /\ \E seed \in Seeds : songs = <<Song_new(seed)>>
  /\ fault = FALSE
  /\ last = Call("new", ABSENT)
  /\ calls = <<>>
  /\ paras = <<>>
  /\ body = <<>>
  /\ parser = UltimateGuitarParser_new
  /\ input = NoInput

\* ------------------------------------------- SpecBuild: the mutation API
BuildAddLine == AddLine(MaxLines)

BuildEnsureLine == EnsureLine

BuildAddTag == \E tag \in BuildTags : AddTag(tag, MaxLines, MaxItems)

BuildAddItem == \E item \in BuildItems : AddItem(item, MaxLines, MaxItems)

NextBuild == BuildAddLine \/ BuildEnsureLine \/ BuildAddTag \/ BuildAddItem

SpecBuild == Init /\ [][NextBuild]_vars

\* --------------------------------------------- Spec: the transformations
ContentItems == {Pair(0), Tag(CAPO, "1"), Tag(KEY, "C")}

ItemFns == {"dropTags", "swap"}

LineFns == {"identity", "dropTagOnly"}

Keys == {"C", "D"}

Capos == {NULL, "3"}

ContentAddLine == AddLine(MaxLines)

ContentAddItem == \E item \in ContentItems : AddItem(item, MaxLines, MaxItems)

DoClone == Clone

DoMapItems == \E fn \in ItemFns : MapItems(fn)

DoMapLines == \E fn \in LineFns : MapLines(fn)

DoSetKey == \E key \in Keys : SetKey(key)

DoSetCapo == \E capo \in Capos : SetCapo(capo)

Next ==
  \/ ContentAddLine
  \/ ContentAddItem
  \/ DoClone
  \/ DoMapItems
  \/ DoMapLines
  \/ DoSetKey
  \/ DoSetCapo

Spec == Init /\ [][Next]_vars

\* ------------------------------------------------- SpecPara: paragraphs
ParaItems == {Pair(0), Tag(CAPO, "1")}

ParaAddLine == AddLine(ParaMaxLines)

ParaAddItem == \E item \in ParaItems : AddItem(item, ParaMaxLines, ParaMaxItems)

NextPara == ParaAddLine \/ ParaAddItem \/ GetParagraphs

SpecPara == Init /\ [][NextPara]_vars

\* ------------------------------- SpecAdopt: building with given Lines
AdoptItems == {Pair(0), Tag(START_OF_VERSE, ""), Tag(COMMENT, "x")}

AdoptAddLine == AddLine(MaxLines)

AdoptAddGivenLine == AddGivenLine(MaxGiven)

AdoptEnsureLine == EnsureLine

AdoptAddItem == \E item \in AdoptItems : AddItem(item, MaxLines, MaxItems)

NextAdopt == AdoptAddLine \/ AdoptAddGivenLine \/ AdoptEnsureLine \/ AdoptAddItem

SpecAdopt == Init /\ [][NextAdopt]_vars

\* ------------------------------------------ SpecCapo: chains of setCapo
CapoValues == {NULL, "3", "5"}

CapoAddLine == AddLine(MaxLines)

CapoAddItem == \E item \in ContentItems : AddItem(item, MaxLines, MaxItems)

CapoSetCapo ==
  \E capo \in CapoValues :
    /\ ~fault
    /\ Len(calls) < MaxCapoChain
    /\ \E r \in {setCapo(St, Cur, capo)} : Transformed("setCapo", "", capo, r)

NextCapo == CapoAddLine \/ CapoAddItem \/ CapoSetCapo

SpecCapo == Init /\ [][NextCapo]_vars

\* --------------------------------------- SpecBody: the cached body reads
BodyAddLine == AddLine(MaxLines)

BodyAddItem == \E item \in ParaItems : AddItem(item, MaxLines, MaxItems)

NextBody == BodyAddLine \/ BodyAddItem \/ GetBodyLines \/ GetBodyParagraphs

SpecBody == Init /\ [][NextBody]_vars

\* ------------------------------------- SpecParser: UltimateGuitarParser
\* the raw lines: blank, "[Verse 1]", "[Chorus]", "[Intro]", a tablature line,
\* two chord lines with a repetition marker, a chord line, a lyrics line
RawLines ==
  { <<>>,
    <<"[", "V", "e", "r", "s", "e", " ", "1", "]">>,
    <<"[", "C", "h", "o", "r", "u", "s", "]">>,
    <<"[", "I", "n", "t", "r", "o", "]">>,
    <<"e", "|", "-", "-", "2", "-", "-", "2", "-", "-", "|">>,
    <<"A", "m", " ", "C", " ", "G", " ", "2", "x">>,
    <<"x", "2", ":", " ", "A", "m">>,
    <<"A", "m", " ", "C">>,
    <<"h", "e", "y">> }

ParserParseLine == \E line \in RawLines : ParseLine(line)

ParserEndOfSong == EndOfSong

NextParser == ParserParseLine \/ ParserEndOfSong

SpecParser == Init /\ [][NextParser]_vars

\* ================================================================= claims
\* the Songs of the k-th transformation: the one it was called on, the one it returned
SrcOf(k) == songs[calls[k].src]

DstOf(k) == songs[calls[k].dst]

ItemsOf(song, i) == heap[song.lines[i]].items

IsCapoTag(item) == isTag(item) /\ item.name = CAPO

HasCapoTag(song) ==
  \E i \in DOMAIN song.lines : \E j \in DOMAIN ItemsOf(song, i) : IsCapoTag(ItemsOf(song, i)[j])

HasContentLine(song, i) == \E j \in DOMAIN ItemsOf(song, i) : ~isTag(ItemsOf(song, i)[j])

\* C1: every transformation (clone, mapItems, mapLines, setKey, setCapo) returns a
\* Song other than the one it was called on, whose Lines did not exist before the
\* call (so none is a Line of s), and leaves s as it was: its lines, metadata,
\* warnings, sectionType and currentLine, and the items of each of its Lines.
C1_TransformLeavesThis ==
  [][Len(calls') > Len(calls) =>
       LET c == calls'[Len(calls')]
           s == songs[c.src]
           r == songs'[c.dst]
       IN /\ c.dst # c.src
          /\ \A i \in DOMAIN r.lines :
               r.lines[i] > Len(heap) /\ r.lines[i] \notin Range(s.lines)
          /\ songs'[c.src] = s
          /\ \A i \in DOMAIN s.lines : heap'[s.lines[i]] = heap[s.lines[i]]]_vars

\* C1 witness: setCapo(3) inserted a directive Line into a copy of a Song of two Lines,
\* and mapLines then copied that copy
C1_Witness ==
  /\ Len(calls) = 2
  /\ calls[1].op = "setCapo" /\ calls[1].arg = "3"
  /\ calls[2].op = "mapLines"
  /\ Len(SrcOf(1).lines) = 2
  /\ Len(DstOf(1).lines) = 3
  /\ Len(DstOf(2).lines) = 3

\* the same lines with the same items, and the same metadata entries
StructurallyEqual(a, b) ==
  /\ Len(a.lines) = Len(b.lines)
  /\ \A i \in DOMAIN a.lines : ItemsOf(a, i) = ItemsOf(b, i)
  /\ a.metadata = b.metadata

\* C2: clone(s) is structurally equal to s: the same number of lines, each with the
\* same items in the same order, and the same metadata entries.
C2_CloneStructurallyEqual ==
  \A k \in DOMAIN calls : calls[k].op = "clone" => StructurallyEqual(SrcOf(k), DstOf(k))

\* the non-absent values the callback returns for the items, in their order
RECURSIVE Kept(_, _, _)
Kept(fn, items, j) ==
  IF j > Len(items) THEN <<>>
  ELSE LET v == func(ItemFn(fn, "", "", 0), items[j])
       IN (IF v = ABSENT THEN <<>> ELSE <<v>>) \o Kept(fn, items, j + 1)

\* C3: mapItems(fn) yields one Line per Line of s, in the same order, the i-th one
\* holding the non-absent values fn returned for the items of the i-th Line of s, in
\* their order; a Line all of whose items fn drops is present with zero items.
C3_MapItemsLineByLine ==
  \A k \in DOMAIN calls :
    calls[k].op = "mapItems" =>
      /\ Len(DstOf(k).lines) = Len(SrcOf(k).lines)
      /\ \A i \in DOMAIN SrcOf(k).lines :
           ItemsOf(DstOf(k), i) = Kept(calls[k].fn, ItemsOf(SrcOf(k), i), 1)

\* C3 witness: fn drops every item of the first Line and keeps the item of the second
C3_Witness ==
  /\ Len(calls) >= 1
  /\ calls[1].op = "mapItems" /\ calls[1].fn = "dropTags"
  /\ Len(SrcOf(1).lines) = 2
  /\ Len(ItemsOf(SrcOf(1), 1)) = 1 /\ Len(ItemsOf(SrcOf(1), 2)) = 1
  /\ Len(DstOf(1).lines) = 2
  /\ ItemsOf(DstOf(1), 1) = <<>> /\ ItemsOf(DstOf(1), 2) = <<Pair(0)>>

\* C4: setCapo(null) returns a Song in which no Line contains a capo Tag and whose
\* metadata has no capo entry, also when one Line of s holds two or more capo Tags.
C4_SetCapoNullRemovesAll ==
  \A k \in DOMAIN calls :
    (calls[k].op = "setCapo" /\ calls[k].arg = NULL) =>
      ~HasCapoTag(DstOf(k)) /\ DstOf(k).metadata[CAPO] = <<>>

\* 1-based index of the first Line of the song that holds a non-Tag item
FirstContentLine(song) ==
  CHOOSE i \in DOMAIN song.lines :
    HasContentLine(song, i) /\ \A m \in 1..(i - 1) : ~HasContentLine(song, m)

\* C5: for s without a capo Tag and with a Line holding a non-Tag item, setCapo(c),
\* c not null, returns a Song with one more Line: a Line holding the single Tag
\* capo=c at the index of the first such Line of s, the Lines of s around it in
\* their order with their items.
C5_SetCapoInsertsDirective ==
  \A k \in DOMAIN calls :
    (/\ calls[k].op = "setCapo" /\ calls[k].arg # NULL
     /\ ~HasCapoTag(SrcOf(k))
     /\ \E i \in DOMAIN SrcOf(k).lines : HasContentLine(SrcOf(k), i)) =>
      LET s == SrcOf(k)
          r == DstOf(k)
          at == FirstContentLine(s)
      IN /\ Len(r.lines) = Len(s.lines) + 1
         /\ ItemsOf(r, at) = <<Tag(CAPO, calls[k].arg)>>
         /\ \A i \in DOMAIN s.lines :
              ItemsOf(r, IF i < at THEN i ELSE i + 1) = ItemsOf(s, i)

\* C5 witness: the first content Line of s is its second Line, after a Line of Tags
C5_Witness ==
  /\ Len(calls) >= 1
  /\ calls[1].op = "setCapo" /\ calls[1].arg = "3"
  /\ Len(SrcOf(1).lines) = 2
  /\ ItemsOf(SrcOf(1), 1) = <<Tag(KEY, "C")>>
  /\ ItemsOf(SrcOf(1), 2) = <<Pair(0)>>
  /\ Len(DstOf(1).lines) = 3
  /\ ItemsOf(DstOf(1), 2) = <<Tag(CAPO, "3")>>

\* C6: capo round trip: for s without a capo Tag, setCapo(setCapo(s, 3), null) has no
\* capo metadata entry, no capo Tag, as many Lines as s and as many items on each.
C6_CapoRoundTrip ==
  \A k \in DOMAIN calls :
    (/\ k + 1 \in DOMAIN calls
     /\ calls[k].op = "setCapo" /\ calls[k].arg = "3"
     /\ calls[k + 1].op = "setCapo" /\ calls[k + 1].arg = NULL
     /\ calls[k + 1].src = calls[k].dst
     /\ ~HasCapoTag(SrcOf(k))) =>
      LET s == SrcOf(k)
          r == DstOf(k + 1)
      IN /\ r.metadata[CAPO] = <<>>
         /\ ~HasCapoTag(r)
         /\ Len(r.lines) = Len(s.lines)
         /\ \A i \in DOMAIN s.lines : Len(ItemsOf(r, i)) = Len(ItemsOf(s, i))

\* C6 witness: the round trip on a Song of two Lines with items, the directive
\* Line inserted between them and removed again
C6_Witness ==
  /\ Len(calls) = 2
  /\ calls[1].op = "setCapo" /\ calls[1].arg = "3"
  /\ calls[2].op = "setCapo" /\ calls[2].arg = NULL
  /\ ~HasCapoTag(SrcOf(1))
  /\ Len(SrcOf(1).lines) = 2
  /\ Len(ItemsOf(SrcOf(1), 1)) = 1 /\ Len(ItemsOf(SrcOf(1), 2)) = 1
  /\ ItemsOf(DstOf(1), 2) = <<Tag(CAPO, "3")>>
  /\ Len(DstOf(2).lines) = 2

\* the calls of the chain named op, and the last of them
CallsOf(op) == {k \in DOMAIN calls : calls[k].op = op}

LastOf(op) == CHOOSE k \in CallsOf(op) : \A m \in CallsOf(op) : m <= k

\* C7: after a chain of setKey and setCapo calls, the final Song's metadata key is the
\* argument of the most recent setKey and its metadata capo the argument of the most
\* recent setCapo (absent if that was null).
C7_MetadataSurvivesChain ==
  (calls # <<>> /\ \A k \in DOMAIN calls : calls[k].op \in {"setKey", "setCapo"}) =>
    /\ CallsOf("setKey") # {} =>
         songs[Cur].metadata[KEY] = <<calls[LastOf("setKey")].arg>>
    /\ CallsOf("setCapo") # {} =>
         songs[Cur].metadata[CAPO] =
           (IF calls[LastOf("setCapo")].arg = NULL THEN <<>>
            ELSE <<calls[LastOf("setCapo")].arg>>)

\* C8: addTag completes without raising whatever the Song state and the tag, creates
\* a current line if there is none, and leaves the tag the last item of that line.
C8_AddTagCompletes ==
  last.op = "addTag" =>
    /\ ~fault
    /\ songs[1].currentLine # 0
    /\ LET items == heap[songs[1].currentLine].items
       IN Len(items) > 0 /\ items[Len(items)] = last.item

IsStartTag(tag) == tag.name \in {START_OF_CHORUS, START_OF_VERSE, START_OF_TAB}

SectionOf(tag) ==
  CASE tag.name \in {START_OF_CHORUS, END_OF_CHORUS} -> CHORUS
    [] tag.name \in {START_OF_VERSE, END_OF_VERSE} -> VERSE
    [] tag.name \in {START_OF_TAB, END_OF_TAB} -> TAB

\* C9: a section start/end Tag added to a Song that has a current line appends exactly
\* one warning when it mismatches the tracked sectionType (an end Tag of another
\* type, a start Tag while a section is open) and none otherwise; either way the
\* transition is made, the Tag is appended to the current line, the earlier
\* warnings stay, and nothing is raised.
C9_SectionMismatchWarns ==
  [][(/\ last'.op = "addTag" /\ last'.item \in SectionTags
      /\ ~fault /\ songs[1].currentLine # 0) =>
       LET s == songs[1]
           t == songs'[1]
           tag == last'.item
           mismatch == IF IsStartTag(tag) THEN s.sectionType # NONE
                       ELSE s.sectionType # SectionOf(tag)
       IN /\ ~fault'
          /\ Len(t.warnings) = Len(s.warnings) + (IF mismatch THEN 1 ELSE 0)
          /\ SubSeq(t.warnings, 1, Len(s.warnings)) = s.warnings
          /\ t.sectionType = (IF IsStartTag(tag) THEN SectionOf(tag) ELSE NONE)
          /\ t.currentLine = s.currentLine
          /\ heap'[t.currentLine].items = Append(heap[s.currentLine].items, tag)]_vars

\* C9 witness: a start Tag opened a section on the current line, and a mismatching
\* Tag added to the same line after it recorded the one warning
C9_Witness ==
  /\ ~fault
  /\ last.op = "addTag" /\ last.item \in SectionTags
  /\ songs[1].currentLine # 0
  /\ Len(heap[songs[1].currentLine].items) = 2
  /\ IsStartTag(heap[songs[1].currentLine].items[1])
  /\ heap[songs[1].currentLine].items[2] = last.item
  /\ Len(songs[1].warnings) = 1
  /\ songs[1].warnings[1].tag = last.item.name

\* the positions of the Lines of the Song that are empty, and of those a paragraph holds
EmptyAt == {i \in DOMAIN songs[1].lines : isEmpty(heap[songs[1].lines[i]])}

GroupedAt ==
  {i \in DOMAIN songs[1].lines :
     ~isEmpty(heap[songs[1].lines[i]]) /\ hasRenderableItems(heap[songs[1].lines[i]])}

\* the paragraphs that hold the Line at position i
GroupsOf(i) == {g \in DOMAIN paras : songs[1].lines[i] \in Range(paras[g])}

RECURSIVE Flatten(_, _)
Flatten(groups, g) == IF g > Len(groups) THEN <<>> ELSE groups[g] \o Flatten(groups, g + 1)

RECURSIVE GroupedLines(_)
GroupedLines(i) ==
  IF i > Len(songs[1].lines) THEN <<>>
  ELSE (IF i \in GroupedAt THEN <<songs[1].lines[i]>> ELSE <<>>) \o GroupedLines(i + 1)

\* C10: paragraphs partitions the lines by the empty Lines: (number of empty Lines + 1)
\* groups in document order; no empty Line and no Line without renderable items in
\* any group; every other Line in exactly one group; two of them in the same group
\* exactly when no empty Line lies between them. Four Lines (with content) of which
\* only the second is empty: two paragraphs, the first Line, and the last two.
C10_ParagraphsPartition ==
  last.op = "paragraphs" =>
    /\ Len(paras) = Cardinality(EmptyAt) + 1
    /\ Flatten(paras, 1) = GroupedLines(1)
    /\ \A i \in DOMAIN songs[1].lines :
         Cardinality(GroupsOf(i)) = (IF i \in GroupedAt THEN 1 ELSE 0)
    /\ \A i, j \in GroupedAt :
         i < j => ((GroupsOf(i) = GroupsOf(j)) <=> (\A m \in EmptyAt : ~(i < m /\ m < j)))
    /\ (Len(songs[1].lines) = 4 /\ EmptyAt = {2} /\ GroupedAt = {1, 3, 4}) =>
         paras = <<<<songs[1].lines[1]>>, <<songs[1].lines[3], songs[1].lines[4]>>>>

\* C10 witness: paragraphs read on four Lines of which only the second is empty
C10_Witness ==
  /\ last.op = "paragraphs"
  /\ Len(songs[1].lines) = 4
  /\ EmptyAt = {2}
  /\ GroupedAt = {1, 3, 4}
  /\ Len(paras) = 2

\* C11: a read of bodyLines returns the Song's current lines without the leading
\* Lines that have no renderable items, and a read of bodyParagraphs returns the
\* current paragraphs without the leading ones that have none, whatever calls
\* of addLine, addItem, addTag and earlier reads came before
C11_BodyReadsAreCurrent ==
  /\ last.op = "bodyLines" => body = shiftLeading(heap, "lines", songs[1].lines)
  /\ last.op = "bodyParagraphs" => paras = shiftLeading(heap, "paragraphs", paragraphs(St, 1))

\* the items of the Song the parser builds, in document order
RECURSIVE itemsFrom(_, _, _)
itemsFrom(h, lines, i) ==
  IF i > Len(lines) THEN <<>> ELSE h[lines[i]].items \o itemsFrom(h, lines, i + 1)

IsSectionTag(item) ==
  /\ isTag(item)
  /\ item.name \in {START_OF_CHORUS, END_OF_CHORUS, START_OF_VERSE, END_OF_VERSE,
                    START_OF_TAB, END_OF_TAB}

SectionTagsOf(h, song) == SelectSeq(itemsFrom(h, song.lines, 1), IsSectionTag)

Alternating(tags) ==
  \A k \in DOMAIN tags :
    IF k % 2 = 1 THEN IsStartTag(tags[k])
    ELSE ~IsStartTag(tags[k]) /\ SectionOf(tags[k]) = SectionOf(tags[k - 1])

\* C12: the section Tags of the Song the parser builds, in document order,
\* alternate between a start Tag and the end Tag of the same section type (no
\* start while a section is open, no end without the start right before it);
\* after end of input the last section Tag is an end Tag, the parser's
\* currentSectionType is null and the Song's sectionType is NONE
C12_SectionsBalanced ==
  /\ Alternating(SectionTagsOf(heap, songs[1]))
  /\ input.done =>
       /\ Len(SectionTagsOf(heap, songs[1])) % 2 = 0
       /\ parser.currentSectionType = NULL
       /\ songs[1].sectionType = NONE

\* an input that opened three sections, the last one closed by end of input
C12_Witness ==
  /\ input.done
  /\ last.op = "endOfSong"
  /\ ~fault
  /\ Len(SectionTagsOf(heap, songs[1])) = 6
  /\ {SectionOf(t) : t \in Range(SectionTagsOf(heap, songs[1]))} = {VERSE, CHORUS, TAB}
  /\ input.line # <<>>
\* C13: parsing raises nothing, for every sequence of raw lines followed by end
\* of input, the empty sequence included
C13_ParserNeverRaises == last.op \in {"parseLine", "endOfSong"} => ~fault

\* nothing is raised once a raw line was parsed
C13_NonEmptyInputNeverRaises == input.n > 0 => ~fault
\* the calls that add a section-start Tag
StartTagAdded(call) ==
  call.op \in {"addTag", "addItem"} /\ isTag(call.item) /\ IsStartTag(call.item)

\* C14 as claimed: no call of addTag, addItem, ensureLine or addLine changes the
\* type, key or transposeKey of a Line that exists already
C14_LineContextImmutable ==
  [][\A id \in DOMAIN heap :
       /\ heap'[id].type = heap[id].type
       /\ heap'[id].key = heap[id].key
       /\ heap'[id].transposeKey = heap[id].transposeKey]_vars

\* C14: no call of addTag, addItem, ensureLine or addLine (without that Line as
\* its argument) changes the key or transposeKey of a Line that exists already,
\* and its type changes in one case only: a section-start Tag added while it is
\* the current line gives it the type of the section that starts
C14_LineContextFixed ==
  [][\A id \in DOMAIN heap :
       /\ heap'[id].key = heap[id].key
       /\ heap'[id].transposeKey = heap[id].transposeKey
       /\ heap'[id].type =
            IF StartTagAdded(last') /\ id = songs[1].currentLine
            THEN SectionOf(last'.item) ELSE heap[id].type]_vars

\* a section-start Tag was added to a Line that held an item already, in no section
C14_Witness ==
  /\ ~fault
  /\ StartTagAdded(last)
  /\ songs[1].warnings = <<>>
  /\ songs[1].currentLine # 0
  /\ Len(heap[songs[1].currentLine].items) >= 2
  /\ heap[songs[1].currentLine].type = SectionOf(last.item)

\* C15: the Song's currentLine is none or the last element of its lines, after
\* any calls of addLine (with or without a given Line), ensureLine, addTag, addItem
C15_CurrentLineIsLast ==
  \/ songs[1].currentLine = 0
  \/ /\ songs[1].lines # <<>>
     /\ songs[1].currentLine = songs[1].lines[Len(songs[1].lines)]
\* a step that hands one more raw line to parseLine
ParseLineStep == last'.op = "parseLine" /\ input'.n = input.n + 1

\* the Line being built is empty and the Line before it is not
BuiltLineEmptyAfterContent ==
  /\ parser.songLine # 0
  /\ Len(heap[parser.songLine].items) = 0
  /\ Len(songs[1].lines) >= 2
  /\ Len(heap[songs[1].lines[Len(songs[1].lines) - 1]].items) > 0

\* the Lines at the positions from to the end hold a start Tag of the section type
\* of every Line among them that is in a section, at or before that Line
OnlyNewSections(h, lines, from) ==
  \A k \in from .. Len(lines) :
    h[lines[k]].type # NONE =>
      \E j \in from .. k : \E i \in DOMAIN h[lines[j]].items :
        /\ isTag(h[lines[j]].items[i])
        /\ IsStartTag(h[lines[j]].items[i])
        /\ SectionOf(h[lines[j]].items[i]) = h[lines[k]].type

\* C16: when parseLine is entered while the Line being built is empty and the
\* Line before it is not, an open section is ended before the raw line is
\* classified: its end Tag is the one item of that empty Line, a fresh Line
\* follows, which stays empty and outside any section; with no section open the
\* empty Line stays empty. Either way the Lines made for the raw line are in no
\* section, or in one that a start Tag emitted for this raw line opens
C16_BlankLineEndsSection ==
  [][ParseLineStep /\ BuiltLineEmptyAfterContent =>
       LET n == Len(songs[1].lines)
           lines2 == songs'[1].lines
       IN /\ IF parser.currentSectionType # NULL
             THEN /\ heap'[parser.songLine].items =
                       <<Tag(endSectionTags[parser.currentSectionType], "")>>
                  /\ Len(lines2) >= n + 2
                  /\ heap'[lines2[n + 1]].items = <<>>
                  /\ heap'[lines2[n + 1]].type = NONE
             ELSE heap'[parser.songLine].items = <<>>
          /\ Len(lines2) > n
          /\ OnlyNewSections(heap', lines2, n + 1)]_vars

\* lyrics after a blank line in a verse: the verse was ended on the blank Line
\* and the lyrics Line is in no section
C16_Witness ==
  /\ last.op = "parseLine"
  /\ ~fault
  /\ input.before = <<>>
  /\ input.line = <<"h", "e", "y">>
  /\ Len(songs[1].lines) >= 4
  /\ heap[songs[1].lines[Len(songs[1].lines) - 2]].items = <<Tag(END_OF_VERSE, "")>>
  /\ heap[songs[1].lines[Len(songs[1].lines)]].type = NONE
  /\ heap[songs[1].lines[Len(songs[1].lines)]].items = <<ChordLyricsPair("", "hey")>>
\* the tablature heuristic, for a raw line that is no bracketed label
TabHeuristic(line) ==
  /\ Len(line) > 8
  /\ Cardinality(positionsOf(line, "-")) > 5
  /\ line[1] # "["

\* the section Tags a step emitted
NewSectionTags ==
  SubSeq(SectionTagsOf(heap', songs'[1]), Len(SectionTagsOf(heap, songs[1])) + 1,
         Len(SectionTagsOf(heap', songs'[1])))

\* the raw line made a Line of its own, the last one: of type TAB, holding one
\* pair, with absent chords and the raw line as lyrics, after the Tags if any
TabLineWritten ==
  LET id == songs'[1].lines[Len(songs'[1].lines)]
  IN /\ id \notin DOMAIN heap
     /\ heap'[id].type = TAB
     /\ SelectSeq(heap'[id].items, LAMBDA item : ~isTag(item)) =
          <<ChordLyricsPair(NULL, Str(input'.line))>>
     /\ ~isTag(heap'[id].items[Len(heap'[id].items)])
     /\ NewSectionTags # <<>> =>
          heap'[id].items[1] = NewSectionTags[Len(NewSectionTags)]

\* the end Tag of the section open before the step, if one is open
OpenSectionEnd ==
  IF parser.currentSectionType # NULL
  THEN <<Tag(endSectionTags[parser.currentSectionType], "")>> ELSE <<>>

\* C17 as claimed: each run of consecutive tablature lines emits exactly one
\* start-of-tab Tag, with its first line
C17_OneStartPerTabRun ==
  [][ParseLineStep /\ TabHeuristic(input'.line) =>
       LET runStart == input.n = 0 \/ ~TabHeuristic(input.line)
       IN /\ TabLineWritten
          /\ NewSectionTags =
               IF runStart THEN OpenSectionEnd \o <<Tag(START_OF_TAB, "")>> ELSE <<>>]_vars

\* C17: a tablature line makes a Line of its own, of type TAB, holding one pair
\* with absent chords and the raw line as lyrics; a start-of-tab Tag is emitted
\* before the pair exactly when no TAB section is open once the implicit
\* section end is done, after the end Tag of the section that was open; so a
\* run of tablature lines emits at most one start-of-tab Tag, with its first line
C17_TabLines ==
  [][ParseLineStep /\ TabHeuristic(input'.line) =>
       LET startsTab == parser.currentSectionType # TAB \/ BuiltLineEmptyAfterContent
       IN /\ TabLineWritten
          /\ NewSectionTags =
               IF startsTab THEN OpenSectionEnd \o <<Tag(START_OF_TAB, "")>> ELSE <<>>
          /\ (input.n > 0 /\ TabHeuristic(input.line)) => ~startsTab]_vars

\* two tablature lines in a row after a verse line: the run emitted the end of
\* the verse and one start-of-tab Tag
C17_Witness ==
  /\ last.op = "parseLine"
  /\ ~fault
  /\ input.n = 3
  /\ TabHeuristic(input.line)
  /\ TabHeuristic(input.before)
  /\ Len(SectionTagsOf(heap, songs[1])) = 3
  /\ heap[songs[1].lines[Len(songs[1].lines)]].items =
       <<ChordLyricsPair(NULL, Str(input.line))>>
  /\ heap[songs[1].lines[Len(songs[1].lines)]].type = TAB
\* n spaces
Blank(n) == [i \in 1 .. n |-> " "]

\* the raw line is a chord line once its repetition markers are removed, holds
\* a marker, and is no section header, bracketed label or tablature line
RepetitionLine(line) ==
  /\ line # <<>>
  /\ line[1] # "["
  /\ ~TabHeuristic(line)
  /\ \E p \in DOMAIN line : repetitionAt(line, p) > 0
  /\ CHORD_LINE_REGEX(withoutRepetitions(line, 1))

\* where the first marker of the line starts, and how long it is
MarkerAt(line) == first({p \in DOMAIN line : repetitionAt(line, p) > 0})

MarkerLen(line) == repetitionAt(line, MarkerAt(line))

\* the line with its first marker blanked
MarkerBlanked(line) ==
  [i \in DOMAIN line |->
     IF i >= MarkerAt(line) /\ i < MarkerAt(line) + MarkerLen(line) THEN " " ELSE line[i]]

\* the first marker's text, its count (the digits), and the column of the count
Marker(line) == SubSeq(line, MarkerAt(line), MarkerAt(line) + MarkerLen(line) - 1)

MarkerCount(line) == SelectSeq(Marker(line), isDigit)

\* the first marker's text without its first colon
MarkerText(line) ==
  LET colons == positionsOf(Marker(line), ":")
  IN IF colons = {} THEN Marker(line)
     ELSE SubSeq(Marker(line), 1, first(colons) - 1)
          \o SubSeq(Marker(line), first(colons) + 1, Len(Marker(line)))

\* the one pair of the Line the step made for the raw line
RepetitionPair == heap'[songs'[1].lines[Len(songs'[1].lines)]].items

\* C18 as claimed: the pair's chord text is the raw line with the marker
\* blanked, and its lyric text is spaces except for the marker's count, which
\* starts at the column at which the marker started in the raw line
C18_CountUnderMarker ==
  [][ParseLineStep /\ RepetitionLine(input'.line) =>
       \E k \in 0 .. Len(input'.line) :
         RepetitionPair =
           <<ChordLyricsPair(Str(MarkerBlanked(input'.line)),
                             Str(Blank(MarkerAt(input'.line) - 1)
                                 \o MarkerCount(input'.line) \o Blank(k)))>>]_vars

\* C18: the raw line makes a Line of its own holding one pair; the pair's chord
\* text is the raw line with its first marker replaced by as many spaces, and
\* its lyric text is as many spaces as the raw line is long, followed by the
\* marker's text without its first colon
C18_MarkerAfterLine ==
  [][ParseLineStep /\ RepetitionLine(input'.line) =>
       /\ songs'[1].lines[Len(songs'[1].lines)] \notin DOMAIN heap
       /\ RepetitionPair =
            <<ChordLyricsPair(
                Str(MarkerBlanked(input'.line)),
                Str(Blank(Len(input'.line)) \o MarkerText(input'.line)))>>]_vars

\* "Am C G 2x" was parsed: chords "Am C G   ", lyrics nine spaces and "2x"
C18_Witness ==
  /\ last.op = "parseLine"
  /\ ~fault
  /\ input.line = <<"A", "m", " ", "C", " ", "G", " ", "2", "x">>
  /\ heap[songs[1].lines[Len(songs[1].lines)]].items =
       <<ChordLyricsPair("Am C G   ", "         2x")>>
  /\ heap[songs[1].lines[Len(songs[1].lines)]].type = NONE
\* the capo Tags of a Song, in document order
CapoTagsOf(song) == SelectSeq(itemsFrom(heap, song.lines, 1), IsCapoTag)

\* C19: from a Song that holds at most one capo Tag, the result of a chain of
\* setCapo calls holds exactly one capo Tag, with the last argument as its
\* value, when that argument is not null, and none when it is null; a call
\* with a non-null argument after another one adds no Line
C19_SetCapoChain ==
  (calls # <<>> /\ Len(CapoTagsOf(songs[1])) <= 1) =>
    /\ CapoTagsOf(songs[Cur]) =
         IF calls[Len(calls)].arg = NULL THEN <<>>
         ELSE <<Tag(CAPO, calls[Len(calls)].arg)>>
    /\ \A k \in 2 .. Len(calls) :
         (calls[k].arg # NULL /\ calls[k - 1].arg # NULL) =>
           Len(DstOf(k).lines) = Len(SrcOf(k).lines)

\* setCapo("3"), setCapo(null), setCapo("5") on a Song with a capo Tag and a pair
C19_Witness ==
  /\ ~fault
  /\ Len(calls) = 3
  /\ Len(CapoTagsOf(songs[1])) = 1
  /\ calls[1].arg = "3"
  /\ calls[2].arg = NULL
  /\ calls[3].arg = "5"
  /\ CapoTagsOf(songs[Cur]) = <<Tag(CAPO, "5")>>
  /\ \E i \in DOMAIN songs[Cur].lines : HasContentLine(songs[Cur], i)
\* C20: after every parseLine and after end of input the parser's
\* currentSectionType and the Song's sectionType name the same section (null
\* with NONE), and the Song has recorded no warning
C20_ParserAndSongAgree ==
  /\ songs[1].sectionType =
       (IF parser.currentSectionType = NULL THEN NONE ELSE parser.currentSectionType)
  /\ songs[1].warnings = <<>>

\* a chorus was replaced by a tablature section, which is open in both
C20_Witness ==
  /\ last.op = "parseLine"
  /\ ~fault
  /\ parser.currentSectionType = TAB
  /\ songs[1].sectionType = TAB
  /\ SectionTagsOf(heap, songs[1]) =
       <<Tag(START_OF_CHORUS, "Chorus"), Tag(END_OF_CHORUS, ""), Tag(START_OF_TAB, "")>>
====
